---- MODULE Spec2Model ----
(***************************************************************************)
(* Model of the oauth package: the Apple identity-token verifier           *)
(* (Apple.IdToken, Apple.VerifySignature, Apple.getPublicKey,              *)
(* Apple.decodePayload), the Apple code exchange (Apple.IdentityCode) and  *)
(* the outbound request executor (Request.Do and its helpers).             *)
(*                                                                         *)
(* Strings are sequences of atoms.  A token is a sequence whose atoms are  *)
(* the separator ".", the blank " " and base64url chunks; every chunk has  *)
(* a fixed decoding given by RawURLDecode, and every decoded byte string   *)
(* has a fixed JSON reading given by UnmarshalHeader / UnmarshalClaims.    *)
(***************************************************************************)
EXTENDS Integers, Sequences, FiniteSets, TLC

\* ------------------------------------------------------------------ bounds
\* Largest number of "."-separated segments of an input token.
MaxSegs == 4
\* Largest number of entries of a key document served by the keys endpoint.
MaxKeys == 2
\* Largest number of Apple.IdToken calls counted in one behaviour.
MaxCalls == 2
\* Number of callers that use one provider instance at the same time.
NumCallers == 2

\* ------------------------------------------------------- program constants
StatusOK == 200
DefaultTimeout == 5
AppleTimeout == 30

ContentTypeJson == "application/json;charset=utf-8"
ContentTypeWWWForm == "application/x-www-form-urlencoded"

AppleURLAuthKeys == "https://appleid.apple.com/auth/keys"
AppleURLAuthToken == "https://appleid.apple.com/auth/token"

ErrInvalidSignature == <<"invalid id signature">>
ErrInvalidIdToken == <<"invalid id token">>
ErrInvalidIdCode == <<"invalid id code">>
ErrInvalidAccessToken == <<"invalid access token">>
ErrInvalidRefreshToken == <<"invalid refresh token">>

LineBaseEndpoint == "https://api.line.me"
LineURLAccessToken == LineBaseEndpoint \o "/oauth2/v2.1/token"
LineURLVerifyAccessToken == LineBaseEndpoint \o "/oauth2/v2.1/verify"
LineURLRefreshAccessToken == LineURLAccessToken
LineURLRevokeAccessToken == LineBaseEndpoint \o "/oauth2/v2.1/revoke"
LineURLVerifyIDToken == LineURLVerifyAccessToken
LineURLProfile == LineBaseEndpoint \o "/v2/profile"
LineURLFriendshipStatus == LineBaseEndpoint \o "/friendship/v1/status"

\* Errors of the libraries the code calls.
ErrVerification == <<"crypto/rsa: verification error">>
ErrCorruptInput == <<"illegal base64 data">>
ErrJSON == <<"json: cannot unmarshal">>
ErrTransport == <<"net/http: transport error">>
\* An error is a tuple: its message and, for a status error, the code.
NoErr == <<>>
NoClaims == "nil"
NoPanic == "none"

\* fmt.Errorf("the status code is: %d", resp.StatusCode)
StatusError(code) == <<"the status code is: ", code>>
\* fmt.Errorf("the status code is : %d", resp.StatusCode), as Line writes it
LineStatusError(code) == <<"the status code is : ", code>>

\* ------------------------------------------------------------ strings.Split
RECURSIVE IndexOf(_, _, _)
\* Index of the first occurrence of sep in s at or after i, 0 if none.
IndexOf(s, sep, i) ==
    IF i > Len(s) THEN 0
    ELSE IF s[i] = sep THEN i
    ELSE IndexOf(s, sep, i + 1)

RECURSIVE Split(_, _)
\* strings.Split(s, sep): always at least one part; "" gives one empty part.
Split(s, sep) ==
    LET i == IndexOf(s, sep, 1) IN
    IF i = 0 THEN <<s>>
    ELSE <<SubSeq(s, 1, i - 1)>> \o Split(SubSeq(s, i + 1, Len(s)), sep)

RECURSIVE Join(_, _)
\* strings.Join(parts, sep).
Join(parts, sep) ==
    IF Len(parts) = 0 THEN <<>>
    ELSE IF Len(parts) = 1 THEN parts[1]
    ELSE parts[1] \o <<sep>> \o Join(Tail(parts), sep)

\* --------------------------------------------- base64.RawURLEncoding decode
\* The base64url chunks of the model and the bytes each decodes to.
ChunkBytes ==
    [ hK1   |-> "{alg:RS256,kid:k1}",
      hK0   |-> "{alg:RS256}",
      hE1   |-> "{alg:ES256,kid:k1}",
      hJunk |-> "not-json",
      pOk   |-> "{iss:apple,sub:u1}",
      pNull |-> "null",
      pBad  |-> "{exp:'soon'}",
      sA    |-> "sigA",
      sB    |-> "sigB",
      sN    |-> "sigN",
      sT    |-> "sigA^1",
      nM1   |-> "modulus1",
      nM2   |-> "modulus2",
      AQAB  |-> "65537" ]

\* DecodeString: the empty string decodes to no bytes; one chunk decodes to
\* its bytes; anything holding a character outside the alphabet (the blank,
\* the separator, "x!") is a CorruptInputError.
RawURLDecode(s) ==
    IF Len(s) = 0 THEN [err |-> NoErr, bytes |-> ""]
    ELSE IF Len(s) = 1 /\ s[1] \in DOMAIN ChunkBytes
         THEN [err |-> NoErr, bytes |-> ChunkBytes[s[1]]]
    ELSE [err |-> ErrCorruptInput, bytes |-> ""]

\* ------------------------------------------------------------ json.Unmarshal
\* json.Unmarshal into struct{Alg, Kid}: an object fills the fields it names
\* (unknown fields are ignored), null leaves the zero value, anything else
\* is an error.
UnmarshalHeader(bytes) ==
    CASE bytes = "{alg:RS256,kid:k1}" -> [err |-> NoErr, Alg |-> "RS256", Kid |-> "k1"]
      [] bytes = "{alg:RS256}"        -> [err |-> NoErr, Alg |-> "RS256", Kid |-> ""]
      [] bytes = "{alg:ES256,kid:k1}" -> [err |-> NoErr, Alg |-> "ES256", Kid |-> "k1"]
      [] bytes \in {"{iss:apple,sub:u1}", "{exp:'soon'}", "null"}
                                      -> [err |-> NoErr, Alg |-> "", Kid |-> ""]
      [] OTHER                        -> [err |-> ErrJSON, Alg |-> "", Kid |-> ""]

\* json.Unmarshal into *AppleClaims: an object allocates the claims, null
\* leaves the pointer nil without an error, a field of the wrong type or a
\* non-JSON text is an error.
UnmarshalClaims(bytes) ==
    CASE bytes = "{iss:apple,sub:u1}" -> [err |-> NoErr, claims |-> "claims{iss:apple,sub:u1}"]
      [] bytes \in {"{alg:RS256,kid:k1}", "{alg:RS256}", "{alg:ES256,kid:k1}"}
                                      -> [err |-> NoErr, claims |-> "claims{}"]
      [] bytes = "null"               -> [err |-> NoErr, claims |-> NoClaims]
      [] OTHER                        -> [err |-> ErrJSON, claims |-> NoClaims]

\* ------------------------------------------------------- rsa.VerifyPKCS1v15
\* Who produced each signature byte string, and over which signing input.
Signatures ==
    [ sigA |-> [N |-> "modulus1", E |-> "65537", over |-> <<"hK1", ".", "pOk">>],
      sigB |-> [N |-> "modulus1", E |-> "65537", over |-> <<"hK0", ".", "pOk">>],
      sigN |-> [N |-> "modulus1", E |-> "65537", over |-> <<"hK1", ".", "pNull">>] ]

\* rsa.VerifyPKCS1v15(pubKey, SHA256, sha256(data), signature): nil exactly
\* when the signature was made over data by the holder of pubKey.
VerifyPKCS1v15(pubKey, data, signature) ==
    IF /\ signature \in DOMAIN Signatures
       /\ Signatures[signature].N = pubKey.N
       /\ Signatures[signature].E = pubKey.E
       /\ Signatures[signature].over = data
    THEN NoErr
    ELSE ErrVerification

\* ===================================================== request executor ==
\* Maps (http.Header, url.Values) are association lists sorted by key: the
\* two encoders below both visit the keys in sorted order.
NoHeader == <<>>
NoData == <<>>
NoBody == [present |-> FALSE, text |-> <<>>]
Direct == "direct"

\* http.Header{"Content-Type": v}
ContentTypeHeader(v) == << <<"Content-Type", v>> >>

\* req.Header["Content-Type"]: the values and whether the key is present.
RECURSIVE HeaderGet(_, _)
HeaderGet(h, name) ==
    IF Len(h) = 0 THEN [ok |-> FALSE, v |-> <<>>]
    ELSE IF h[1][1] = name THEN [ok |-> TRUE, v |-> h[1][2]]
    ELSE HeaderGet(Tail(h), name)

\* url.QueryEscape on the strings of the model.
QueryEscape(s) ==
    CASE s = "x y"            -> "x+y"
      [] s = "https://app/cb" -> "https%3A%2F%2Fapp%2Fcb"
      [] OTHER                -> s

RECURSIVE EncodeValues(_, _)
\* One key of url.Values.Encode: k=v for each value, joined by "&".
EncodeValues(k, vs) ==
    IF Len(vs) = 0 THEN <<>>
    ELSE <<QueryEscape(k), "=", QueryEscape(vs[1])>>
         \o (IF Len(vs) > 1 THEN <<"&">> \o EncodeValues(k, Tail(vs)) ELSE <<>>)

RECURSIVE Encode(_)
\* url.Values.Encode(): "a=1&b=x+y", keys sorted.
Encode(data) ==
    IF Len(data) = 0 THEN <<>>
    ELSE LET first == EncodeValues(data[1][1], data[1][2])
             rest  == Encode(Tail(data))
         IN  IF Len(first) = 0 THEN rest
             ELSE IF Len(rest) = 0 THEN first
             ELSE first \o <<"&">> \o rest

JSONString(s) == <<"\"", s, "\"">>

RECURSIVE JSONArray(_)
JSONArray(vs) ==
    IF Len(vs) = 0 THEN <<>>
    ELSE JSONString(vs[1])
         \o (IF Len(vs) > 1 THEN <<",">> \o JSONArray(Tail(vs)) ELSE <<>>)

RECURSIVE JSONMembers(_)
JSONMembers(data) ==
    IF Len(data) = 0 THEN <<>>
    ELSE JSONString(data[1][1]) \o <<":", "[">> \o JSONArray(data[1][2]) \o <<"]">>
         \o (IF Len(data) > 1 THEN <<",">> \o JSONMembers(Tail(data)) ELSE <<>>)

\* json.Marshal(url.Values): url.Values is map[string][]string, so every
\* value is written as an array of strings: {"a":["1"]}.
Marshal(data) == <<"{">> \o JSONMembers(data) \o <<"}">>

\* Request.formatParams: the body reader (nil when there is nothing to
\* send) and the request with ContentType possibly taken from the header.
formatParams(req) ==
    IF Len(req.Data) > 0
    THEN LET h == HeaderGet(req.Header, "Content-Type") IN
         IF req.ContentType = "" /\ h.ok /\ Len(h.v) = 0
         THEN [panic |-> "index out of range", req |-> req, body |-> NoBody]
         ELSE
         LET ct == IF req.ContentType = "" /\ h.ok THEN h.v[1] ELSE req.ContentType
             r  == [req EXCEPT !.ContentType = ct]
         IN  CASE ct = ContentTypeJson ->
                    [panic |-> NoPanic, req |-> r,
                     body |-> [present |-> TRUE, text |-> Marshal(req.Data)]]
               [] ct = ContentTypeWWWForm ->
                    [panic |-> NoPanic, req |-> r,
                     body |-> [present |-> TRUE, text |-> Encode(req.Data)]]
               [] OTHER ->
                    [panic |-> NoPanic, req |-> r, body |-> NoBody]
    ELSE [panic |-> NoPanic, req |-> req, body |-> NoBody]

\* url.Parse on the URLs of the model: nil error or a parse error.
URLParseOK(u) == u \notin {":bad-proxy", ":bad-url"}

\* http.NewRequest validates the method and parses the URL.
ValidMethod(m) == m \in {"GET", "POST", ""}

\* Request.newRequest: panics when http.NewRequest fails.
newRequest(req) ==
    LET f == formatParams(req) IN
    IF f.panic # NoPanic THEN [panic |-> f.panic, req |-> f.req, request |-> <<>>]
    ELSE IF ~(ValidMethod(req.Method) /\ URLParseOK(req.URL))
    THEN [panic |-> "http.NewRequest", req |-> f.req, request |-> <<>>]
    ELSE [panic |-> NoPanic, req |-> f.req,
          request |-> [Method |-> IF req.Method = "" THEN "GET" ELSE req.Method,
                       URL |-> req.URL, Header |-> req.Header, Body |-> f.body]]

\* Request.setProxy: nil transport without a ProxyURL, a proxying transport
\* with one, a panic when the ProxyURL does not parse.
setProxy(req) ==
    IF req.ProxyURL # ""
    THEN IF ~URLParseOK(req.ProxyURL)
         THEN [panic |-> "url.Parse", proxy |-> Direct]
         ELSE [panic |-> NoPanic, proxy |-> req.ProxyURL]
    ELSE [panic |-> NoPanic, proxy |-> Direct]

\* clientTimeout with the comparison made strict: a Timeout of 0 is kept.
clientTimeout_strict(timeout) == IF 0 > timeout THEN DefaultTimeout ELSE timeout

\* The timeout httpClient puts on the client.
clientTimeout(timeout) == IF 0 >= timeout THEN DefaultTimeout ELSE timeout

\* Request.httpClient: the client and the request with Timeout defaulted.
httpClient(req) ==
    LET t == clientTimeout(req.Timeout)
        p == setProxy(req)
    IN  [panic |-> p.panic,
         req |-> [req EXCEPT !.Timeout = t],
         client |-> [Timeout |-> t, Transport |-> p.proxy]]

\* Request.Do with a second attempt: the request goes on the wire twice.
Do_resend(req) ==
    LET c == httpClient(req) IN
    IF c.panic # NoPanic
    THEN [panic |-> c.panic, req |-> c.req, client |-> c.client, wire |-> <<>>]
    ELSE LET n == newRequest(c.req) IN
         [panic |-> n.panic, req |-> n.req, client |-> c.client,
          wire |-> IF n.panic # NoPanic THEN <<>>
                   ELSE LET w == [request |-> n.request, via |-> c.client.Transport,
                                  timeout |-> c.client.Timeout]
                        IN  <<w, w>>]

\* Request.Do up to the network: the client, then the http.Request, then
\* client.Do puts exactly that request on the wire.
Do(req) ==
    LET c == httpClient(req) IN
    IF c.panic # NoPanic
    THEN [panic |-> c.panic, req |-> c.req, client |-> c.client, wire |-> <<>>]
    ELSE LET n == newRequest(c.req) IN
         [panic |-> n.panic, req |-> n.req, client |-> c.client,
          wire |-> IF n.panic # NoPanic THEN <<>>
                   ELSE << [request |-> n.request, via |-> c.client.Transport,
                            timeout |-> c.client.Timeout] >>]

\* Request.Post / Request.Get set the method and call Do.
Post(req) == Do([req EXCEPT !.Method = "POST"])
Get(req) == Do([req EXCEPT !.Method = "GET"])

\* New(url, method, proxy, options...) with the options applied.
New(url, method, proxy, contentType, timeout, header, data) ==
    [URL |-> url, Method |-> method, ProxyURL |-> proxy,
     ContentType |-> contentType, Timeout |-> timeout,
     Header |-> header, Data |-> data]

\* ============================================================== network ==
\* What the remote end may answer to one round trip.
KeyEntries ==
    { [Alg |-> "RS256", Kid |-> "k1", N |-> <<"nM1">>, E |-> <<"AQAB">>],
      [Alg |-> "RS256", Kid |-> "k1", N |-> <<"nM2">>, E |-> <<"AQAB">>],
      [Alg |-> "ES256", Kid |-> "k1", N |-> <<"nM2">>, E |-> <<"AQAB">>],
      [Alg |-> "RS256", Kid |-> "",   N |-> <<"nM1">>, E |-> <<"AQAB">>],
      [Alg |-> "RS256", Kid |-> "k1", N |-> <<" ">>,   E |-> <<"AQAB">>] }

KeySets == UNION { [1..n -> KeyEntries] : n \in 0..MaxKeys }

\* A body is a key document {"keys":[...]}, an object {"code":v} (v a JSON
\* number, a JSON string, or the member absent), or text that is not JSON.
KeysBody(ks) == [kind |-> "keys", keys |-> ks, code |-> "absent"]
CodeBody(v) == [kind |-> "code", keys |-> <<>>, code |-> v]
JunkBody == [kind |-> "junk", keys |-> <<>>, code |-> "absent"]

Response(status, body) == [transportErr |-> FALSE, StatusCode |-> status, Body |-> body]
TransportFailure == [transportErr |-> TRUE, StatusCode |-> 0, Body |-> JunkBody]

SomeKeys == << [Alg |-> "RS256", Kid |-> "k1", N |-> <<"nM1">>, E |-> <<"AQAB">>] >>

KeysResponses ==
    {TransportFailure}
    \cup { Response(st, b) : st \in {404, 500}, b \in {JunkBody, KeysBody(SomeKeys)} }
    \cup { Response(StatusOK, KeysBody(ks)) : ks \in KeySets }
    \cup { Response(StatusOK, b) : b \in {JunkBody, CodeBody("0")} }

TokenResponses ==
    {TransportFailure}
    \cup { Response(st, b) : st \in {StatusOK, 400},
                             b \in {JunkBody, KeysBody(<<>>), CodeBody("0"),
                                    CodeBody("7"), CodeBody("\"x\""), CodeBody("absent")} }

\* A JSON object as the Line endpoints answer with: the document the
\* operation expects ("doc"), an error object with string members
\* ("error"), {"friendFlag":true} ("friendFlag") or {} ("empty").
ObjectBody(what) == [kind |-> "object", keys |-> <<>>, code |-> what]

LineResponses ==
    {TransportFailure}
    \cup { Response(st, b) :
             st \in {StatusOK, 400, 401},
             b \in {JunkBody} \cup { ObjectBody(w) : w \in {"doc", "error", "friendFlag", "empty"} } }

PlainResponses ==
    {TransportFailure} \cup { Response(st, JunkBody) : st \in {StatusOK, 404} }

\* json.Unmarshal into interface{}: the Go type and value a JSON value gets.
\* Every JSON number becomes a float64.
UnmarshalAny(v) ==
    CASE v = "0"      -> [gotype |-> "float64", val |-> 0]
      [] v = "7"      -> [gotype |-> "float64", val |-> 7]
      [] v = "\"x\""  -> [gotype |-> "string", val |-> 0]
      [] OTHER        -> [gotype |-> "nil", val |-> 0]

\* ================================================================ Apple ==
\* The first index of keys whose Alg and Kid both equal the header's, 0 if
\* there is none (the range loop with break).
RECURSIVE FirstMatch(_, _, _)
FirstMatch(keys, header, i) ==
    IF i > Len(keys) THEN 0
    ELSE IF keys[i].Alg = header.Alg /\ keys[i].Kid = header.Kid THEN i
    ELSE FirstMatch(keys, header, i + 1)

\* &ApplePublicKey{}
ZeroKey == [Alg |-> "", Kid |-> "", N |-> <<>>, E |-> <<>>]

\* NoKeyFound with the test left out: the scan's result is used as it is.
NoKeyFound_never(publicKey) == FALSE

\* The test that decides "no matching public key found".
NoKeyFound(publicKey) == publicKey.Kid = ""

\* getPublicKey without the status check: the body is parsed whatever the
\* status is.
getPublicKey_noStatusCheck(r) ==
    IF r.transportErr THEN [err |-> ErrTransport, keys |-> <<>>]
    ELSE IF r.Body.kind = "junk" THEN [err |-> ErrJSON, keys |-> <<>>]
    ELSE [err |-> NoErr, keys |-> r.Body.keys]

\* Apple.getPublicKey after Do returned: the key set and the error.
getPublicKey(r) ==
    IF r.transportErr THEN [err |-> ErrTransport, keys |-> <<>>]
    ELSE IF r.StatusCode # StatusOK
    THEN [err |-> StatusError(r.StatusCode), keys |-> <<>>]
    ELSE IF r.Body.kind = "junk" THEN [err |-> ErrJSON, keys |-> <<>>]
    ELSE [err |-> NoErr, keys |-> r.Body.keys]

Outcome(err, panic, log, used) ==
    [err |-> err, panic |-> panic, log |-> log, used |-> used]

\* Apple.VerifySignature once the key fetch returned `fetched`.  log lists
\* the stages entered, used is the index of the key handed to the RSA check.
VerifySignature(val, fetched) ==
    IF fetched.err # NoErr THEN Outcome(fetched.err, NoPanic, <<>>, 0)
    ELSE
    LET headerBytes == RawURLDecode(val[1])
        header == UnmarshalHeader(headerBytes.bytes)
        i == FirstMatch(fetched.keys, header, 1)
        publicKey == IF i = 0 THEN ZeroKey ELSE fetched.keys[i]
        l1 == <<"decodeHeader">>
        l2 == l1 \o <<"selectKey">>
    IN
    IF headerBytes.err # NoErr THEN Outcome(headerBytes.err, NoPanic, l1, 0)
    ELSE IF header.err # NoErr THEN Outcome(header.err, NoPanic, l1, 0)
    ELSE IF NoKeyFound(publicKey) THEN Outcome(ErrInvalidSignature, NoPanic, l2, 0)
    ELSE IF Len(val) < 3 THEN Outcome(NoErr, "index out of range", l2, 0)
    ELSE
    LET data == val[1] \o <<".">> \o val[2]
        signature == RawURLDecode(val[3])
        nBytes == RawURLDecode(publicKey.N)
        eBytes == RawURLDecode(publicKey.E)
        pubKey == [N |-> nBytes.bytes, E |-> eBytes.bytes]
        l3 == l2 \o <<"verify">>
    IN
    IF signature.err # NoErr THEN Outcome(signature.err, NoPanic, l2, 0)
    ELSE IF nBytes.err # NoErr THEN Outcome(nBytes.err, NoPanic, l2, 0)
    ELSE IF eBytes.err # NoErr THEN Outcome(eBytes.err, NoPanic, l2, 0)
    ELSE Outcome(VerifyPKCS1v15(pubKey, data, signature.bytes), NoPanic, l3, i)

\* Apple.decodePayload
decodePayload(str) ==
    LET payload == RawURLDecode(str) IN
    IF payload.err # NoErr THEN [claims |-> NoClaims, err |-> payload.err]
    ELSE LET c == UnmarshalClaims(payload.bytes) IN
         IF c.err # NoErr THEN [claims |-> NoClaims, err |-> c.err]
         ELSE [claims |-> c.claims, err |-> NoErr]

\* RejectedEarly with the header segment decoded and parsed up front, so
\* that a token with an unusable header is turned away before the fetch.
RejectedEarly_headerFirst(tok) ==
    \/ tok = <<>>
    \/ LET headerBytes == RawURLDecode(Split(tok, ".")[1]) IN
         \/ headerBytes.err # NoErr
         \/ UnmarshalHeader(headerBytes.bytes).err # NoErr

\* RejectedEarly with the check left out.
RejectedEarly_none(tok) == FALSE

\* The check Apple.IdToken makes before it splits the token.
RejectedEarly(tok) == tok = <<>>

\* ================================================================= Line ==
LineOps ==
    {"Line.AccessToken", "Line.RefreshAccessToken", "Line.RevokeAccessToken",
     "Line.IDToken", "Line.UserInformation", "Line.UserProfile", "Line.FriendshipStatus"}

\* The operations that return (bool, error); the others return a pointer.
LineBoolOps == {"Line.RevokeAccessToken", "Line.FriendshipStatus"}

\* The operations that compare resp.StatusCode with http.StatusOK.
LineStatusChecked == {"Line.AccessToken", "Line.RefreshAccessToken", "Line.RevokeAccessToken"}

\* What an operation returns beside a non-nil error: nil, or false.
NoResult(name) == IF name \in LineBoolOps THEN "false" ELSE NoClaims

\* The error for an empty argument.
LineArgError(name) ==
    CASE name = "Line.RefreshAccessToken" -> ErrInvalidRefreshToken
      [] name = "Line.IDToken"            -> ErrInvalidIdToken
      [] OTHER                            -> ErrInvalidAccessToken

Bearer(arg) == << <<"Authorization", <<"Bearer " \o arg>>>> >>

\* The Request each operation builds for its argument.
LineRequest(name, arg, svc) ==
    CASE name = "Line.AccessToken" ->
            New(LineURLVerifyAccessToken \o "?access_token=" \o arg, "GET", svc.ProxyURL,
                "", 0, NoHeader, NoData)
      [] name = "Line.RefreshAccessToken" ->
            New(LineURLRefreshAccessToken, "POST", svc.ProxyURL, "", AppleTimeout,
                ContentTypeHeader(<<ContentTypeWWWForm>>),
                << <<"client_id", <<svc.ClientID>>>>,
                   <<"client_secret", <<svc.ClientSecret>>>>,
                   <<"grant_type", <<"refresh_token">>>>,
                   <<"refresh_token", <<arg>>>> >>)
      [] name = "Line.RevokeAccessToken" ->
            New(LineURLRevokeAccessToken, "POST", svc.ProxyURL, "", AppleTimeout,
                ContentTypeHeader(<<ContentTypeWWWForm>>),
                << <<"access_token", <<arg>>>>, <<"client_id", <<svc.ClientID>>>> >>)
      [] name = "Line.IDToken" ->
            New(LineURLVerifyIDToken, "POST", svc.ProxyURL, "", AppleTimeout,
                ContentTypeHeader(<<ContentTypeWWWForm>>),
                << <<"client_id", <<svc.ClientID>>>>, <<"id_token", <<arg>>>> >>)
      [] name = "Line.FriendshipStatus" ->
            New(LineURLFriendshipStatus, "GET", svc.ProxyURL, "", AppleTimeout,
                Bearer(arg), NoData)
      [] OTHER ->
            New(LineURLProfile, "GET", svc.ProxyURL, "", AppleTimeout, Bearer(arg), NoData)

\* json.Unmarshal(value, &data) with data a pointer to a struct: any JSON
\* object is accepted, members the struct does not have are ignored and the
\* fields without a member keep their zero value.
UnmarshalStruct(body) ==
    IF body.kind = "junk" THEN [result |-> NoClaims, err |-> ErrJSON]
    ELSE IF body.kind = "object" /\ body.code = "doc" THEN [result |-> "&{doc}", err |-> NoErr]
    ELSE [result |-> "&{}", err |-> NoErr]

\* json.Unmarshal(value, &data) with data a map[string]bool, and then
\* data["friendFlag"]: a member that is a string is a type error.
UnmarshalFlags(body) ==
    IF body.kind = "object" /\ body.code = "friendFlag" THEN [result |-> "true", err |-> NoErr]
    ELSE IF body.kind = "object" /\ body.code = "empty" THEN [result |-> "false", err |-> NoErr]
    ELSE [result |-> "false", err |-> ErrJSON]

\* A Line operation after Get or Post returned.
lineResult(name, r) ==
    IF r.transportErr THEN [result |-> NoResult(name), err |-> ErrTransport]
    ELSE IF name \in LineStatusChecked /\ StatusOK # r.StatusCode
    THEN [result |-> NoResult(name), err |-> LineStatusError(r.StatusCode)]
    ELSE IF name = "Line.RevokeAccessToken" THEN [result |-> "true", err |-> NoErr]
    ELSE IF name = "Line.FriendshipStatus" THEN UnmarshalFlags(r.Body)
    ELSE UnmarshalStruct(r.Body)

\* =============================================================== inputs ==
\* The segment a caller may put at position i of a token: header chunks,
\* payload chunks, signature chunks, then junk; the blank is no base64url.
SegsAt(i) ==
    CASE i = 1 -> {<<" ">>, <<" ", " ">>, <<"hK1">>, <<"hK0">>, <<"hE1">>, <<"hJunk">>}
      [] i = 2 -> {<<"pOk">>, <<"pNull">>, <<"pBad">>}
      [] i = 3 -> {<<"sA">>, <<"sB">>, <<"sN">>, <<"sT">>, <<" ">>}
      [] OTHER -> {<<"x!">>}

RECURSIVE SegSeqs(_)
SegSeqs(n) ==
    IF n = 0 THEN {<<>>}
    ELSE { Append(p, x) : p \in SegSeqs(n - 1), x \in SegsAt(n) }

\* The empty token and every token of 1..MaxSegs segments.
Tokens == {<<>>} \cup { Join(segs, ".") : segs \in UNION { SegSeqs(n) : n \in 1..MaxSegs } }

Codes == {"", "c0de"}

\* The argument of a Line operation: empty, or some token.
LineArgs == {"", "tok"}

ProxyURLs == {"", "http://127.0.0.1:8001", ":bad-proxy"}

Requests ==
    { New(u, m, p, ct, t, h, d) :
        u \in {"https://api.line.me/v2/profile", ":bad-url"},
        m \in {"GET", "POST"},
        p \in ProxyURLs,
        ct \in {"", ContentTypeJson, ContentTypeWWWForm, "text/plain"},
        t \in {-1, 0, 3, AppleTimeout},
        h \in {NoHeader, ContentTypeHeader(<<ContentTypeWWWForm>>),
               ContentTypeHeader(<<ContentTypeJson>>),
               ContentTypeHeader(<<"application/json">>),
               ContentTypeHeader(<<>>)},
        d \in {NoData, << <<"a", <<"1">>>> >>,
               << <<"a", <<"1">>>>, <<"b", <<"x y">>>> >>,
               << <<"a", <<"1", "2">>>> >>} }

\* ================================================================ state ==
VARIABLES
    pc,       \* "idle", "keys", "token", "do", "line" (a round trip is pending), "done"
    op,       \* the operation running or last run
    service,  \* the Service of the provider
    token,    \* the argument of Apple.IdToken
    code,     \* the argument of Apple.IdentityCode or of a Line operation
    arr,      \* strings.Split(token, ".")
    req,      \* the Request as Do left it (at most one)
    client,   \* the http.Client Do built (at most one)
    sent,     \* the requests put on the wire during the call
    resp,     \* the response received (at most one)
    log,      \* the stages of the call, in the order entered
    used,     \* index of the key handed to the RSA check, 0 if none
    ret,      \* what the call returned, or the panic it raised
    given,    \* the Request as it was handed to Do (at most one)
    verifs,   \* Apple.IdToken calls so far that went on to VerifySignature
    fetches,  \* requests put on the wire for the keys endpoint so far
    calls,    \* concurrent callers of Apple.IdToken: each caller's own locals
    remote    \* the key document the keys endpoint holds while they run

vars == <<pc, op, service, token, code, arr, req, client, sent, resp, log, used, ret,
          given, verifs, fetches, calls, remote>>

NoRet == [claims |-> NoClaims, code |-> 0, err |-> NoErr, panic |-> NoPanic]
Returned(claims, c, err) == [claims |-> claims, code |-> c, err |-> err, panic |-> NoPanic]
Panicked(what) == [claims |-> NoClaims, code |-> 0, err |-> NoErr, panic |-> what]

Callers == 1..NumCallers

\* The locals of a caller that is not inside Apple.IdToken.
IdleCall == [pc |-> "idle", token |-> <<>>, sent |-> <<>>, resp |-> <<>>, ret |-> NoRet]

Init ==
    /\ calls = [c \in Callers |-> IdleCall]
    /\ remote = <<>>
    /\ pc = "idle"
    /\ op = ""
    /\ service \in { [ClientID |-> "com.short.roll", ClientSecret |-> "RGGHW6A8T4",
                      RedirectURL |-> "https://app/cb", ProxyURL |-> p] : p \in ProxyURLs }
    /\ token = <<>>
    /\ code = ""
    /\ arr = <<>>
    /\ req = <<>>
    /\ client = <<>>
    /\ sent = <<>>
    /\ resp = <<>>
    /\ log = <<>>
    /\ used = 0
    /\ ret = NoRet
    /\ given = <<>>
    /\ verifs = 0
    /\ fetches = 0

\* A call begins: nothing of the previous call is kept.
Begin(name) ==
    /\ pc = "idle"
    /\ op' = name
    /\ resp' = <<>>
    /\ used' = 0
    /\ UNCHANGED <<service, calls, remote>>

\* Request.Do as far as the network: either the panic ends the call or the
\* request is on the wire and the call waits at `wait`.
Issue(q, d, wait) ==
    /\ given' = <<q>>
    /\ req' = <<d.req>>
    /\ client' = <<d.client>>
    /\ sent' = d.wire
    /\ IF d.panic # NoPanic
       THEN pc' = "done" /\ ret' = Panicked(d.panic)
       ELSE pc' = wait /\ ret' = NoRet

\* Apple.IdToken up to the key fetch of VerifySignature.
KeysRequest == New(AppleURLAuthKeys, "GET", service.ProxyURL, "", AppleTimeout, NoHeader, NoData)

IdToken(tok) ==
    /\ Begin("IdToken")
    /\ verifs < MaxCalls
    /\ token' = tok
    /\ code' = ""
    /\ IF RejectedEarly(tok)
       THEN /\ arr' = <<>>
            /\ log' = <<"emptyCheck">>
            /\ req' = <<>> /\ client' = <<>> /\ sent' = <<>> /\ given' = <<>>
            /\ pc' = "done"
            /\ ret' = Returned(NoClaims, 0, ErrInvalidIdToken)
            /\ UNCHANGED <<verifs, fetches>>
       ELSE /\ arr' = Split(tok, ".")
            /\ log' = <<"emptyCheck", "split", "fetchKeys">>
            /\ Issue(KeysRequest, Do(KeysRequest), "keys")
            /\ verifs' = verifs + 1
            /\ fetches' = fetches + Len(Do(KeysRequest).wire)

\* IdTokenTail with the error of VerifySignature dropped: the payload is
\* decoded whenever the segment exists.
IdTokenTail_ignoreErr(val, v) ==
    IF v.panic # NoPanic \/ Len(val) < 2
    THEN [ret |-> Panicked("index out of range"), log |-> v.log]
    ELSE LET c == decodePayload(val[2]) IN
         [ret |-> IF c.err # NoErr THEN Returned(NoClaims, 0, c.err)
                  ELSE Returned(c.claims, 0, NoErr),
          log |-> v.log \o <<"decodePayload">>]

\* Apple.IdToken after VerifySignature returned v: its error ends the call,
\* otherwise the payload segment is decoded.
IdTokenTail(val, v) ==
    IF v.panic # NoPanic THEN [ret |-> Panicked(v.panic), log |-> v.log]
    ELSE IF v.err # NoErr
    THEN [ret |-> Returned(NoClaims, 0, v.err), log |-> v.log]
    ELSE LET c == decodePayload(val[2]) IN
         [ret |-> IF c.err # NoErr THEN Returned(NoClaims, 0, c.err)
                  ELSE Returned(c.claims, 0, NoErr),
          log |-> v.log \o <<"decodePayload">>]

\* Apple.IdToken from the answer of the keys endpoint to its return.
IdTokenReturn(r) ==
    /\ pc = "keys"
    /\ resp' = <<r>>
    /\ LET v == VerifySignature(arr, getPublicKey(r))
           t == IdTokenTail(arr, v)
       IN  /\ used' = v.used
           /\ log' = log \o t.log
           /\ ret' = t.ret
    /\ pc' = "done"
    /\ UNCHANGED <<op, service, token, code, arr, req, client, sent, given, verifs, fetches,
                   calls, remote>>

\* The five form fields of the code exchange, keys sorted.
ExchangeParams(c) ==
    << <<"client_id", <<service.ClientID>>>>,
       <<"client_secret", <<service.ClientSecret>>>>,
       <<"code", <<c>>>>,
       <<"grant_type", <<"authorization_code">>>>,
       <<"redirect_uri", <<service.RedirectURL>>>> >>

ExchangeRequest(c) ==
    New(AppleURLAuthToken, "POST", service.ProxyURL, "", AppleTimeout,
        ContentTypeHeader(<<ContentTypeWWWForm>>), ExchangeParams(c))

\* Apple.IdentityCode up to the POST.
IdentityCode(c) ==
    /\ Begin("IdentityCode")
    /\ code' = c
    /\ token' = <<>>
    /\ arr' = <<>>
    /\ UNCHANGED <<verifs, fetches>>
    /\ IF c = ""
       THEN /\ log' = <<"emptyCheck">>
            /\ req' = <<>> /\ client' = <<>> /\ sent' = <<>> /\ given' = <<>>
            /\ pc' = "done"
            /\ ret' = Returned(NoClaims, -1, ErrInvalidIdCode)
       ELSE /\ log' = <<"emptyCheck", "post">>
            /\ Issue(ExchangeRequest(c), Post(ExchangeRequest(c)), "token")

\* result["code"].(int): the value when its Go type is int, else a panic.
AssertInt(v) ==
    IF v.gotype = "int" THEN Returned(NoClaims, v.val, NoErr)
    ELSE Panicked("interface conversion")

\* Apple.IdentityCode after Post returned.
exchangeResult(r) ==
    IF r.transportErr THEN Returned(NoClaims, -1, ErrTransport)
    ELSE IF r.StatusCode # StatusOK
    THEN Returned(NoClaims, r.StatusCode, StatusError(r.StatusCode))
    ELSE IF r.Body.kind = "junk" THEN Returned(NoClaims, -1, ErrJSON)
    ELSE AssertInt(UnmarshalAny(r.Body.code))

IdentityCodeReturn(r) ==
    /\ pc = "token"
    /\ resp' = <<r>>
    /\ ret' = exchangeResult(r)
    /\ log' = Append(log, "decodeResult")
    /\ pc' = "done"
    /\ UNCHANGED <<op, service, token, code, arr, req, client, sent, used, given,
                   verifs, fetches, calls, remote>>

\* Request.Do called directly on a Request.
Execute(q) ==
    /\ Begin("Do")
    /\ token' = <<>>
    /\ code' = ""
    /\ arr' = <<>>
    /\ log' = <<"do">>
    /\ Issue(q, Do(q), "do")
    /\ UNCHANGED <<verifs, fetches>>

\* client.Do returns the response or the transport error; no second try.
ExecuteReturn(r) ==
    /\ pc = "do"
    /\ resp' = IF r.transportErr THEN <<>> ELSE <<r>>
    /\ ret' = Returned(NoClaims, 0, IF r.transportErr THEN ErrTransport ELSE NoErr)
    /\ log' = Append(log, "return")
    /\ pc' = "done"
    /\ UNCHANGED <<op, service, token, code, arr, req, client, sent, used, given,
                   verifs, fetches, calls, remote>>

\* A Line operation up to its Get or Post.
LineCall(name, arg) ==
    /\ Begin(name)
    /\ token' = <<>>
    /\ code' = arg
    /\ arr' = <<>>
    /\ UNCHANGED <<verifs, fetches>>
    /\ IF "" = arg
       THEN /\ log' = <<"emptyCheck">>
            /\ req' = <<>> /\ client' = <<>> /\ sent' = <<>> /\ given' = <<>>
            /\ pc' = "done"
            /\ ret' = Returned(NoResult(name), 0, LineArgError(name))
       ELSE /\ log' = <<"emptyCheck", "request">>
            /\ LET q == LineRequest(name, arg, service) IN
               Issue(q, IF q.Method = "POST" THEN Post(q) ELSE Get(q), "line")

\* A Line operation from the return of Get or Post to its own return.
LineReturn(r) ==
    /\ pc = "line"
    /\ resp' = <<r>>
    /\ ret' = Returned(lineResult(op, r).result, 0, lineResult(op, r).err)
    /\ log' = Append(log, "decodeResult")
    /\ pc' = "done"
    /\ UNCHANGED <<op, service, token, code, arr, req, client, sent, used, given,
                   verifs, fetches, calls, remote>>

\* The caller takes the result; the next call starts from scratch.
Discard ==
    /\ pc = "done"
    /\ pc' = "idle"
    /\ op' = ""
    /\ token' = <<>>
    /\ code' = ""
    /\ arr' = <<>>
    /\ req' = <<>>
    /\ client' = <<>>
    /\ sent' = <<>>
    /\ resp' = <<>>
    /\ log' = <<>>
    /\ used' = 0
    /\ ret' = NoRet
    /\ given' = <<>>
    /\ UNCHANGED <<service, verifs, fetches, calls, remote>>

Next ==
    \/ pc = "idle" /\ \E tok \in Tokens : IdToken(tok)
    \/ pc = "keys" /\ \E r \in KeysResponses : IdTokenReturn(r)
    \/ pc = "idle" /\ \E c \in Codes : IdentityCode(c)
    \/ pc = "token" /\ \E r \in TokenResponses : IdentityCodeReturn(r)
    \/ pc = "idle" /\ \E q \in Requests : Execute(q)
    \/ pc = "do" /\ \E r \in PlainResponses : ExecuteReturn(r)
    \/ pc = "idle" /\ \E name \in LineOps, arg \in LineArgs : LineCall(name, arg)
    \/ pc = "line" /\ \E r \in LineResponses : LineReturn(r)
    \/ Discard

Spec == Init /\ [][Next]_vars

\* ========================================================== concurrency ==
\* Several callers inside Apple.IdToken of one provider instance at once.
\* Each call has its own token, Request, response and key set (all locals of
\* IdToken, VerifySignature and getPublicKey); the provider's service is
\* only read. A step is what one caller does between two points where
\* another caller may run.

\* The tokens the callers verify: empty, valid, tampered, signed by another
\* key, cut short, undecodable header.
ConcTokens ==
    { <<>>,
      <<"hK1", ".", "pOk", ".", "sA">>,
      <<"hK1", ".", "pOk", ".", "sT">>,
      <<"hK1", ".", "pOk", ".", "sB">>,
      <<"hK1", ".", "pOk">>,
      <<"hJunk", ".", "pOk", ".", "sA">> }

\* The key documents the endpoint may hold.
RemoteDocs == { SomeKeys, <<>> }

\* What a fetch may come back with while the endpoint holds doc.
RemoteAnswers(doc) ==
    { TransportFailure, Response(500, JunkBody), Response(StatusOK, KeysBody(doc)) }

ConcInit ==
    /\ calls = [c \in Callers |-> IdleCall]
    /\ remote \in RemoteDocs
    /\ pc = "idle"
    /\ op = ""
    /\ service \in { [ClientID |-> "com.short.roll", ClientSecret |-> "RGGHW6A8T4",
                      RedirectURL |-> "https://app/cb", ProxyURL |-> p] : p \in ProxyURLs }
    /\ token = <<>>
    /\ code = ""
    /\ arr = <<>>
    /\ req = <<>>
    /\ client = <<>>
    /\ sent = <<>>
    /\ resp = <<>>
    /\ log = <<>>
    /\ used = 0
    /\ ret = NoRet
    /\ given = <<>>
    /\ verifs = 0
    /\ fetches = 0

Sequential ==
    <<pc, op, service, token, code, arr, req, client, sent, resp, log, used, ret,
      given, verifs, fetches, remote>>

\* Caller c enters Apple.IdToken and runs up to client.Do.
ConcIdToken(c, tok) ==
    /\ calls[c].pc = "idle"
    /\ calls' = [calls EXCEPT ![c] =
          IF RejectedEarly(tok)
          THEN [pc |-> "done", token |-> tok, sent |-> <<>>, resp |-> <<>>,
                ret |-> Returned(NoClaims, 0, ErrInvalidIdToken)]
          ELSE LET d == Do(KeysRequest) IN
               IF d.panic # NoPanic
               THEN [pc |-> "done", token |-> tok, sent |-> d.wire, resp |-> <<>>,
                     ret |-> Panicked(d.panic)]
               ELSE [pc |-> "keys", token |-> tok, sent |-> d.wire, resp |-> <<>>,
                     ret |-> NoRet]]
    /\ UNCHANGED Sequential

\* client.Do returns to caller c.
ConcReceive(c, r) ==
    /\ calls[c].pc = "keys"
    /\ calls' = [calls EXCEPT ![c].pc = "verify", ![c].resp = <<r>>]
    /\ UNCHANGED Sequential

\* getPublicKey with the response kept in one place for all callers: every
\* caller parses the response of the first caller that holds one.
KeysOf_shared(c, cs) ==
    LET holders == { d \in Callers : Len(cs[d].resp) = 1 }
        first == CHOOSE d \in holders : \A e \in holders : d <= e
    IN  getPublicKey(cs[first].resp[1])

\* The key set caller c works with: parsed from the response of its own
\* fetch into a local of getPublicKey.
KeysOf(c, cs) == getPublicKey(cs[c].resp[1])

\* Caller c runs the rest of getPublicKey, VerifySignature and IdToken.
ConcVerify(c) ==
    /\ calls[c].pc = "verify"
    /\ LET val == Split(calls[c].token, ".")
           v == VerifySignature(val, KeysOf(c, calls))
       IN  calls' = [calls EXCEPT ![c].pc = "done", ![c].ret = IdTokenTail(val, v).ret]
    /\ UNCHANGED Sequential

\* Caller c takes its result.
ConcDiscard(c) ==
    /\ calls[c].pc = "done"
    /\ calls' = [calls EXCEPT ![c] = IdleCall]
    /\ UNCHANGED Sequential

ConcNext ==
    \/ \E c \in Callers, tok \in ConcTokens : ConcIdToken(c, tok)
    \/ \E c \in Callers, r \in RemoteAnswers(remote) : ConcReceive(c, r)
    \/ \E c \in Callers : ConcVerify(c)
    \/ \E c \in Callers : ConcDiscard(c)

SpecConc == ConcInit /\ [][ConcNext]_vars

\* ============================================================ properties ==
Range(f) == { f[i] : i \in DOMAIN f }

WhitespaceOnly(tok) == Len(tok) > 0 /\ \A i \in 1..Len(tok) : tok[i] = " "

\* A call of Apple.IdToken that has returned after the keys endpoint answered.
IdTokenDone == pc = "done" /\ op = "IdToken" /\ Len(resp) = 1

\* What the call's own inputs say about each stage.
Fetched == getPublicKey(resp[1])
HeaderBytes == RawURLDecode(arr[1])
Header == UnmarshalHeader(HeaderBytes.bytes)
HeaderOK == HeaderBytes.err = NoErr /\ Header.err = NoErr
MatchSet ==
    { i \in 1..Len(Fetched.keys) :
        Fetched.keys[i].Alg = Header.Alg /\ Fetched.keys[i].Kid = Header.Kid }
FirstMatching ==
    IF MatchSet = {} THEN 0 ELSE CHOOSE i \in MatchSet : \A j \in MatchSet : i <= j
KeyMaterial(i) ==
    [N |-> RawURLDecode(Fetched.keys[i].N).bytes, E |-> RawURLDecode(Fetched.keys[i].E).bytes]
FetchStages == <<"emptyCheck", "split", "fetchKeys">>
AllStages == FetchStages \o <<"decodeHeader", "selectKey", "verify", "decodePayload">>

\* C1: a token that does not split on "." into exactly three parts fails
\* with an error before any network call: no request is ever sent for it,
\* and the call ends with a non-nil error.
C1_FormatErrorBeforeFetch ==
    (op = "IdToken" /\ token # <<>> /\ Len(Split(token, ".")) # 3)
        => /\ Len(sent) = 0
           /\ pc = "done" => (ret.panic = NoPanic /\ ret.err # NoErr)

C3_ShortCircuit ==
    /\ (op = "IdToken" /\ ret.claims # NoClaims)
          => pc = "done" /\ ret.err = NoErr /\ ret.panic = NoPanic /\ log = AllStages
    /\ (op = "IdToken" /\ ret.panic # NoPanic)
          => ret.claims = NoClaims /\ "decodePayload" \notin Range(log)
    /\ IdTokenDone =>
      /\ Fetched.err # NoErr
            => ret = Returned(NoClaims, 0, Fetched.err) /\ log = FetchStages
      /\ (Fetched.err = NoErr /\ HeaderBytes.err # NoErr)
            => /\ ret = Returned(NoClaims, 0, HeaderBytes.err)
               /\ log = FetchStages \o <<"decodeHeader">>
      /\ (Fetched.err = NoErr /\ HeaderBytes.err = NoErr /\ Header.err # NoErr)
            => /\ ret = Returned(NoClaims, 0, Header.err)
               /\ log = FetchStages \o <<"decodeHeader">>
      /\ (Fetched.err = NoErr /\ HeaderOK /\ MatchSet = {})
            => /\ ret = Returned(NoClaims, 0, ErrInvalidSignature)
               /\ log = FetchStages \o <<"decodeHeader", "selectKey">>
      /\ (Len(arr) >= 3 /\ arr[3] = <<"sT">> /\ "verify" \in Range(log))
            => ret = Returned(NoClaims, 0, ErrVerification)
      /\ "decodePayload" \in Range(log)
            => /\ log = AllStages
               /\ used \in MatchSet
               /\ VerifyPKCS1v15(KeyMaterial(used), arr[1] \o <<".">> \o arr[2],
                                 RawURLDecode(arr[3]).bytes) = NoErr

C3_Witness ==
    /\ IdTokenDone /\ Len(arr) = 3 /\ arr[3] = <<"sT">>
    /\ "verify" \in Range(log)
    /\ ret = Returned(NoClaims, 0, ErrVerification)

\* C4: a three-segment token whose header names an alg and kid that no
\* entry of the fetched key set matches fails with ErrInvalidSignature, an
\* error other than the RSA verification error, and no RSA check is made.
C4_KeyNotFoundNotSignatureError ==
    (IdTokenDone /\ Len(arr) = 3 /\ Fetched.err = NoErr /\ HeaderOK /\ MatchSet = {})
        => /\ ret = Returned(NoClaims, 0, ErrInvalidSignature)
           /\ ret.err # ErrVerification
           /\ "verify" \notin Range(log)
           /\ used = 0

C4_Witness ==
    /\ IdTokenDone /\ Len(arr) = 3 /\ Fetched.err = NoErr /\ HeaderOK
    /\ Header.Kid = "k1" /\ Len(Fetched.keys) > 0 /\ MatchSet = {}
    /\ ret.err = ErrInvalidSignature

\* C5: the key used is the first entry, in key-set order, whose alg and kid
\* both equal the header's; verification goes on with it whenever such an
\* entry exists (an empty kid included) and the no-match outcome occurs only
\* when no entry matches both fields.
C5_FirstMatchUsed ==
    (IdTokenDone /\ Len(arr) = 3 /\ Fetched.err = NoErr /\ HeaderOK)
        => /\ (ret.err = ErrInvalidSignature) <=> (MatchSet = {})
           /\ used # 0 => used = FirstMatching
           /\ "verify" \in Range(log) => used = FirstMatching

\* C6: a well-formed three-segment token whose signature over
\* header "." payload is valid under the key of the fetched key set that
\* matches the header's kid and alg is accepted: nil error, and the claims
\* are the JSON-decoded payload segment.
C6_ValidTokenAccepted ==
    (/\ IdTokenDone /\ Len(arr) = 3 /\ Fetched.err = NoErr /\ HeaderOK
     /\ MatchSet # {}
     /\ RawURLDecode(arr[2]).err = NoErr
     /\ UnmarshalClaims(RawURLDecode(arr[2]).bytes).err = NoErr
     /\ RawURLDecode(arr[3]).err = NoErr
     /\ VerifyPKCS1v15(KeyMaterial(FirstMatching), arr[1] \o <<".">> \o arr[2],
                       RawURLDecode(arr[3]).bytes) = NoErr)
        => ret = Returned(UnmarshalClaims(RawURLDecode(arr[2]).bytes).claims, 0, NoErr)

\* C7: IdentityCode("") returns ErrInvalidIdCode without sending a request;
\* for a non-empty code answered by HTTP 200 with the body {"code": 0} it
\* returns result code 0 and a nil error.
C7_CodeExchange ==
    /\ (op = "IdentityCode" /\ code = "")
          => Len(sent) = 0 /\ pc = "done" /\ ret.err = ErrInvalidIdCode
    /\ (/\ op = "IdentityCode" /\ code # "" /\ pc = "done" /\ Len(resp) = 1
        /\ resp[1] = Response(StatusOK, CodeBody("0")))
          => ret = Returned(NoClaims, 0, NoErr)

C9_BodyEncoding ==
    (Len(req) = 1 /\ Len(sent) = 1)
        => LET q == req[1]
               body == sent[1].request.Body
           IN  /\ (q.Data = << <<"a", <<"1">>>> >> /\ q.ContentType = ContentTypeJson)
                     => /\ body.present
                        /\ body.text = <<"{">> \o JSONString("a") \o <<":">>
                                       \o JSONString("1") \o <<"}">>
               /\ (q.Data = << <<"a", <<"1">>>> >> /\ q.ContentType = ContentTypeWWWForm)
                     => body.present /\ body.text = <<"a", "=", "1">>
               /\ q.Data = NoData => ~body.present

\* C10: without a ProxyURL the request goes out directly; with a ProxyURL
\* that parses it goes through that proxy; with a ProxyURL that does not
\* parse, Do returns an error to its caller, nothing is sent and there is no
\* fall back to a direct connection.
C10_ProxyPolicy ==
    Len(req) = 1
        => LET q == req[1] IN
           /\ (Len(sent) = 1 /\ q.ProxyURL = "") => sent[1].via = Direct
           /\ (Len(sent) = 1 /\ q.ProxyURL # "") => sent[1].via = q.ProxyURL
           /\ (q.ProxyURL # "" /\ ~URLParseOK(q.ProxyURL))
                 => /\ Len(sent) = 0
                    /\ pc = "done"
                    /\ ret.panic = NoPanic
                    /\ ret.err # NoErr

IsPrefix(s, t) == Len(s) <= Len(t) /\ SubSeq(t, 1, Len(s)) = s

\* Whether the first segment of the token decodes and parses as a header.
TokenHeaderOK ==
    LET headerBytes == RawURLDecode(Split(token, ".")[1]) IN
    headerBytes.err = NoErr /\ UnmarshalHeader(headerBytes.bytes).err = NoErr

\* The order of the stages with the header decoded before the key fetch.
HeaderFirstStages ==
    <<"emptyCheck", "split", "decodeHeader", "fetchKeys", "selectKey", "verify",
      "decodePayload">>

\* C11 as stated: the stages of Apple.IdToken run in the order empty check,
\* split, decode header, fetch keys, select key and verify, decode payload,
\* and a token whose header segment cannot be decoded or parsed causes no
\* key-set fetch.
C11_HeaderBeforeFetch ==
    /\ op = "IdToken" => IsPrefix(log, HeaderFirstStages)
    /\ (op = "IdToken" /\ token # <<>> /\ ~TokenHeaderOK) => Len(sent) = 0

\* C11 amended: the stages of Apple.IdToken run in the order empty check,
\* split, fetch keys, decode header, select key, verify, decode payload, each
\* at most once and none before its predecessor. The key set is fetched
\* before the header segment is looked at: a token whose header segment
\* cannot be decoded or parsed has its key-set request on the wire as soon as
\* the call has built its client, and is turned away at the header stage
\* only after the keys arrived, with the error of the decoding or parsing.
C11_FetchBeforeHeader ==
    /\ op = "IdToken" => IsPrefix(log, AllStages)
    /\ (op = "IdToken" /\ token # <<>> /\ ~TokenHeaderOK) =>
          /\ IsPrefix(FetchStages, log)
          /\ ret.panic = NoPanic => Len(sent) = 1
          /\ (IdTokenDone /\ Fetched.err = NoErr) =>
                /\ log = FetchStages \o <<"decodeHeader">>
                /\ ret.claims = NoClaims
                /\ ret.err = (IF HeaderBytes.err # NoErr THEN HeaderBytes.err ELSE Header.err)

C11_Witness ==
    /\ IdTokenDone /\ ~HeaderOK /\ Fetched.err = NoErr
    /\ Len(sent) = 1 /\ log = FetchStages \o <<"decodeHeader">>

\* A response that is a transport error or carries a status outside 2xx.
FailedResponse(r) == r.transportErr \/ r.StatusCode < 200 \/ r.StatusCode > 299

\* C12: a call of Request.Do puts at most one request on the wire, and a
\* call that was answered with a transport error or a status outside 2xx ends
\* with that single request still the only one (no retry). Every Apple.IdToken
\* call that goes on to the key fetch and gets its client built issues exactly
\* one request, a GET of the keys endpoint, so the number of key fetches
\* always equals the number of such calls: N verifications, N fetches.
C12_OneFetchPerCall ==
    /\ Len(sent) <= 1
    /\ (pc = "done" /\ Len(resp) = 1 /\ FailedResponse(resp[1])) => Len(sent) = 1
    /\ (op = "IdToken" /\ token # <<>>) =>
          /\ Len(sent) = (IF setProxy(KeysRequest).panic = NoPanic THEN 1 ELSE 0)
          /\ \A i \in 1..Len(sent) :
                sent[i].request.URL = AppleURLAuthKeys /\ sent[i].request.Method = "GET"
    /\ fetches = (IF setProxy(KeysRequest).panic = NoPanic THEN verifs ELSE 0)

C12_Witness ==
    /\ IdTokenDone /\ FailedResponse(resp[1])
    /\ verifs = MaxCalls /\ fetches = MaxCalls /\ Len(sent) = 1

\* C14: the timeout of the client Request.Do builds is the Timeout the caller
\* put on the Request whenever that is greater than 0, and 5 seconds whenever
\* it is 0 or negative; the request on the wire is sent under that timeout,
\* and the Request itself is left holding it.
C14_TimeoutPolicy ==
    (Len(given) = 1 /\ Len(client) = 1) =>
        LET effective == IF given[1].Timeout > 0 THEN given[1].Timeout ELSE 5 IN
        /\ client[1].Timeout = effective
        /\ req[1].Timeout = effective
        /\ \A i \in 1..Len(sent) : sent[i].timeout = effective

C14_Witness ==
    /\ op = "Do" /\ pc = "done" /\ Len(given) = 1 /\ Len(sent) = 1
    /\ given[1].Timeout = 3 /\ client[1].Timeout = 3 /\ sent[1].timeout = 3

\* C15: a call of Apple.IdToken that returns hands back either claims with a
\* nil error or no claims with a non-nil error, never no claims with a nil
\* error, whatever the token and the key set (a validly signed token whose
\* payload is the JSON null included).
C15_ClaimsXorError ==
    (op = "IdToken" /\ pc = "done" /\ ret.panic = NoPanic) =>
        \/ ret.claims # NoClaims /\ ret.err = NoErr
        \/ ret.claims = NoClaims /\ ret.err # NoErr

\* C17: whenever the Request handed to Do has non-empty Data, the request
\* on the wire carries a non-empty body, a JSON object when the effective
\* content type (the ContentType field if set, otherwise the first value of
\* the Content-Type header) is the JSON one and key=value pairs when it is
\* the form one; no ContentType and headers make the Data go out as an empty
\* body.
C17_DataAlwaysSent ==
    (Len(given) = 1 /\ Len(sent) = 1 /\ Len(given[1].Data) > 0) =>
        LET body == sent[1].request.Body
            h == HeaderGet(given[1].Header, "Content-Type")
            effective == IF given[1].ContentType # "" THEN given[1].ContentType
                         ELSE IF h.ok /\ Len(h.v) > 0 THEN h.v[1]
                         ELSE ""
        IN  /\ body.present
            /\ Len(body.text) > 0
            /\ effective = ContentTypeJson => body.text[1] = "{"
            /\ effective = ContentTypeWWWForm =>
                  body.text[1] = given[1].Data[1][1] /\ body.text[2] = "="

\* A Line operation that returned after the provider answered.
LineAnswered == op \in LineOps /\ pc = "done" /\ Len(resp) = 1 /\ ~resp[1].transportErr

\* C16: every Line operation that sends a request returns a non-nil error
\* and no decoded result (nil, or false) whenever the provider answered with
\* a status other than 200; Line.IDToken hands out no LineIDToken with a nil
\* error for a token the provider turned away with a 4xx status.
C16_LineStatusChecked ==
    (LineAnswered /\ resp[1].StatusCode # 200) =>
        /\ ret.err # NoErr
        /\ ret.claims = (IF op \in LineBoolOps THEN "false" ELSE NoClaims)

\* What Apple.IdToken returns for token tok when it runs alone and its fetch
\* comes back with rs (no response: the call ended before or in Do).
Alone(tok, rs) ==
    IF tok = <<>> THEN Returned(NoClaims, 0, ErrInvalidIdToken)
    ELSE IF Len(rs) = 0 THEN Panicked(Do(KeysRequest).panic)
    ELSE LET val == Split(tok, ".") IN
         IdTokenTail(val, VerifySignature(val, getPublicKey(rs[1]))).ret

\* A caller whose fetch was answered with status 200.
Answered(c) ==
    /\ Len(calls[c].resp) = 1
    /\ ~calls[c].resp[1].transportErr
    /\ calls[c].resp[1].StatusCode = 200

====
